---- MODULE Spec2Model ----
(***************************************************************************)
(* Model of the numeric grounding verifier of wslanalytics-rag             *)
(* (src/app/guards.py).                                                    *)
(*                                                                         *)
(* Text is a TLA+ string and a character is a string of length one.  The   *)
(* en dash U+2013, which a TLA+ string literal cannot hold, is written     *)
(* "~" (EnDash): wherever the model's text holds "~" the program's text    *)
(* holds U+2013.  The model's alphabet is ASCII plus the en dash; for these *)
(* characters Python's \d, \s, \b and [A-Za-z] are the classes below.      *)
(*                                                                         *)
(* Python values that may be None are tagged records: PyNone, PyStr(s),    *)
(* PyList(l).  A dict is a function from its keys to such values.          *)
(***************************************************************************)
EXTENDS Integers, Sequences, FiniteSets, TLC

\* ------------------------------------------------------------------ text

CharAt(s, i) == SubSeq(s, i, i)

EnDash == "~"

DigitChars == "0123456789"

LetterChars == "abcdefghijklmnopqrstuvwxyzABCDEFGHIJKLMNOPQRSTUVWXYZ"

CharsOf(s) == {CharAt(s, i) : i \in 1..Len(s)}

IsDigit(c) == c \in {"0", "1", "2", "3", "4", "5", "6", "7", "8", "9"}

IsLetter(c) == c \in CharsOf(LetterChars)

\* \w of the regex engine, on the model's alphabet
IsWordChar(c) == IsLetter(c) \/ IsDigit(c) \/ c = "_"

\* the control characters U+000B and U+001C to U+001F, which have no
\* escape in a TLA+ string and stand in these literals as themselves
VT == ""

FS == ""

GS == ""

RS == ""

US == ""

\* the whitespace of str: what \s matches and str.strip() strips
SpaceChars == {" ", "\t", "\n", "\r", VT, "\f", FS, GS, RS, US}

\* \s of the regex engine, on the model's alphabet
IsSpace(c) == c \in SpaceChars

\* the whitespace float() strips from the ends of its argument
FloatSpaceChars == {" ", "\t", "\n", "\r", VT, "\f"}

Min(a, b) == IF a < b THEN a ELSE b

\* k copies of c.  (This and the scans below halve their range instead of
\* stepping through it, so that a text of some hundred characters does not
\* nest the evaluation as deep as it is long.)
RECURSIVE Rep(_, _)
Rep(c, k) ==
  IF k = 0 THEN "" ELSE IF k = 1 THEN c
  ELSE Rep(c, k \div 2) \o Rep(c, k - k \div 2)

DigitSet == CharsOf(DigitChars)

LetterSet == CharsOf(LetterChars)

\* the first position p in lo..hi with (s[p] \in cs) = want, or hi + 1
RECURSIVE FirstPos(_, _, _, _, _)
FirstPos(s, lo, hi, cs, want) ==
  IF lo > hi THEN hi + 1
  ELSE IF lo = hi THEN (IF (CharAt(s, lo) \in cs) = want THEN lo ELSE hi + 1)
  ELSE LET m == (lo + hi) \div 2
           l == FirstPos(s, lo, m, cs, want)
       IN  IF l <= m THEN l ELSE FirstPos(s, m + 1, hi, cs, want)

\* the last position p in lo..hi with (s[p] \in cs) = want, or lo - 1
RECURSIVE LastPos(_, _, _, _, _)
LastPos(s, lo, hi, cs, want) ==
  IF lo > hi THEN lo - 1
  ELSE IF lo = hi THEN (IF (CharAt(s, lo) \in cs) = want THEN lo ELSE lo - 1)
  ELSE LET m == (lo + hi) \div 2
           r == LastPos(s, m + 1, hi, cs, want)
       IN  IF r > m THEN r ELSE LastPos(s, lo, m, cs, want)

\* the digit c as a number
DigitVal(c) == CHOOSE d \in 0..9 : CharAt(DigitChars, d + 1) = c

DigitChar(d) == CharAt(DigitChars, d + 1)

\* ------------------------------------------------------- Python values

PyNone == [py |-> "None"]

PyStr(s) == [py |-> "str", s |-> s]

PyList(l) == [py |-> "list", l |-> l]

\* `text or ""` for a str-or-None argument
OrEmptyStr(x) == IF x.py = "None" THEN "" ELSE x.s

\* `facts or []` for a list-or-None argument
OrEmptyList(x) == IF x.py = "None" THEN <<>> ELSE x.l

\* ---------------------------------------------------------------- _NUM_RE
\* Each operator below is one element of the pattern, tried in the regex
\* engine's backtracking order (greedy first); it yields the position after
\* the match, or 0 when no alternative matches.

\* the length of the run of digits at i
DigitRun(s, i) == FirstPos(s, i, Len(s), DigitSet, FALSE) - i

\* (?<![A-Za-z]) seen from the character at i; (?![A-Za-z]) likewise
NotLetterAt(s, i) == i < 1 \/ i > Len(s) \/ ~IsLetter(CharAt(s, i))

\* %? (?![A-Za-z])
NumTail(s, q) ==
  IF q <= Len(s) /\ CharAt(s, q) = "%" /\ NotLetterAt(s, q + 1) THEN q + 1
  ELSE IF NotLetterAt(s, q) THEN q
  ELSE 0

\* (?:\.\d+)? with m fraction digits, then fewer, then without the group
RECURSIVE NumFrac(_, _, _)
NumFrac(s, p, m) ==
  IF m = 0 THEN NumTail(s, p)
  ELSE IF NumTail(s, p + 1 + m) # 0 THEN NumTail(s, p + 1 + m)
  ELSE NumFrac(s, p, m - 1)

NumDecimal(s, p) ==
  IF p <= Len(s) /\ CharAt(s, p) = "." THEN NumFrac(s, p, DigitRun(s, p + 1))
  ELSE NumTail(s, p)

\* ,\d{3} at position q
IsGroupAt(s, q) ==
  /\ q + 3 <= Len(s)
  /\ CharAt(s, q) = ","
  /\ \A d \in 1..3 : IsDigit(CharAt(s, q + d))

\* the first g in lo..hi such that the g-th four characters from p are no
\* group, or hi + 1
RECURSIVE FirstNoGroup(_, _, _, _)
FirstNoGroup(s, p, lo, hi) ==
  IF lo > hi THEN hi + 1
  ELSE IF lo = hi THEN (IF IsGroupAt(s, p + 4 * (lo - 1)) THEN hi + 1 ELSE lo)
  ELSE LET m == (lo + hi) \div 2
           l == FirstNoGroup(s, p, lo, m)
       IN  IF l <= m THEN l ELSE FirstNoGroup(s, p, m + 1, hi)

\* the number of consecutive ",ddd" groups at p
GroupRun(s, p) ==
  IF p > Len(s) THEN 0 ELSE FirstNoGroup(s, p, 1, (Len(s) - p + 1) \div 4) - 1

\* (?:,\d{3})* with g groups, then fewer
RECURSIVE NumGroups(_, _, _)
NumGroups(s, p, g) ==
  IF NumDecimal(s, p + 4 * g) # 0 THEN NumDecimal(s, p + 4 * g)
  ELSE IF g = 0 THEN 0
  ELSE NumGroups(s, p, g - 1)

\* \d{1,3} with k digits, then fewer
RECURSIVE NumDigits(_, _, _)
NumDigits(s, j, k) ==
  IF k = 0 THEN 0
  ELSE IF NumGroups(s, j + k, GroupRun(s, j + k)) # 0
       THEN NumGroups(s, j + k, GroupRun(s, j + k))
  ELSE NumDigits(s, j, k - 1)

\* a match of _NUM_RE starting at i: the position after it, or 0
NumMatchEnd(s, i) ==
  IF ~NotLetterAt(s, i - 1) THEN 0
  ELSE LET j == IF i <= Len(s) /\ CharAt(s, i) = "-" THEN i + 1 ELSE i
       IN  NumDigits(s, j, Min(3, DigitRun(s, j)))

\* the first position in lo..hi where _NUM_RE matches, or hi + 1
RECURSIVE FirstNumMatch(_, _, _)
FirstNumMatch(s, lo, hi) ==
  IF lo > hi THEN hi + 1
  ELSE IF lo = hi THEN (IF NumMatchEnd(s, lo) # 0 THEN lo ELSE hi + 1)
  ELSE LET m == (lo + hi) \div 2
           l == FirstNumMatch(s, lo, m)
       IN  IF l <= m THEN l ELSE FirstNumMatch(s, m + 1, hi)

\* findall: leftmost matches, left to right, not overlapping
RECURSIVE NumScan(_, _)
NumScan(s, i) ==
  LET b == FirstNumMatch(s, i, Len(s))
  IN  IF b > Len(s) THEN <<>>
      ELSE <<SubSeq(s, b, NumMatchEnd(s, b) - 1)>> \o NumScan(s, NumMatchEnd(s, b))

numbers_from_text(text) == NumScan(OrEmptyStr(text), 1)

\* -------------------------------------------------------------- _SCORE_RE

\* the length of the run of whitespace at i
SpaceRun(s, i) == FirstPos(s, i, Len(s), SpaceChars, FALSE) - i

IsDash(c) == c \in {"-", EnDash}

\* \b before a digit at i, and \b after a digit at i - 1
WordStartAt(s, i) == i = 1 \/ ~IsWordChar(CharAt(s, i - 1))

WordEndAt(s, i) == i > Len(s) \/ ~IsWordChar(CharAt(s, i))

\* A match of \b(\d+)\s*[-~]\s*(\d+)\b starting at i: <<a, b, end>>, or <<>>.
\* Both \d+ and both \s* take their whole run: with fewer characters the
\* next element of the pattern meets a digit or a space and fails.
ScoreMatch(s, i) ==
  LET d1 == DigitRun(s, i)
      p1 == i + d1 + SpaceRun(s, i + d1)
      p2 == p1 + 1 + SpaceRun(s, p1 + 1)
      d2 == DigitRun(s, p2)
  IN  IF /\ d1 > 0
         /\ WordStartAt(s, i)
         /\ p1 <= Len(s)
         /\ IsDash(CharAt(s, p1))
         /\ d2 > 0
         /\ WordEndAt(s, p2 + d2)
      THEN <<SubSeq(s, i, i + d1 - 1), SubSeq(s, p2, p2 + d2 - 1), p2 + d2>>
      ELSE <<>>

\* the first position in lo..hi where _SCORE_RE matches, or hi + 1
RECURSIVE FirstScoreMatch(_, _, _)
FirstScoreMatch(s, lo, hi) ==
  IF lo > hi THEN hi + 1
  ELSE IF lo = hi THEN (IF ScoreMatch(s, lo) # <<>> THEN lo ELSE hi + 1)
  ELSE LET m == (lo + hi) \div 2
           l == FirstScoreMatch(s, lo, m)
       IN  IF l <= m THEN l ELSE FirstScoreMatch(s, m + 1, hi)

\* findall: leftmost matches, left to right, not overlapping
RECURSIVE ScoreScan(_, _)
ScoreScan(s, i) ==
  LET b == FirstScoreMatch(s, i, Len(s))
  IN  IF b > Len(s) THEN <<>>
      ELSE LET m == ScoreMatch(s, b)
           IN  <<(<<m[1], m[2]>>)>> \o ScoreScan(s, m[3])

scorelines_from_text(text) == ScoreScan(OrEmptyStr(text), 1)

\* ------------------------------------------------ _normalize_number_token

\* s[lo..hi] without its commas
RECURSIVE RemoveCommasIn(_, _, _)
RemoveCommasIn(s, lo, hi) ==
  IF lo > hi THEN ""
  ELSE IF lo = hi THEN (IF CharAt(s, lo) = "," THEN "" ELSE CharAt(s, lo))
  ELSE RemoveCommasIn(s, lo, (lo + hi) \div 2)
       \o RemoveCommasIn(s, (lo + hi) \div 2 + 1, hi)

\* str.replace(",", "")
RemoveCommas(s) == RemoveCommasIn(s, 1, Len(s))

\* str.rstrip("%"): every trailing percent sign goes
RStripChar(s, c) == SubSeq(s, 1, LastPos(s, 1, Len(s), {c}, FALSE))

\* a wrong normalizer, for contrast: the percent sign stays
NormalizeKeepPercent(tok) == RemoveCommas(tok)

_normalize_number_token(tok) == RStripChar(RemoveCommas(tok), "%")

\* --------------------------------------------------------------- float(n)
\* What float() makes of a string, for the strings this module feeds it:
\* optional surrounding whitespace, an optional sign, then decimal digits
\* with at most one point, or one of the words inf, infinity, nan.  A
\* finite value is kept as the decimal digits written; the double they are
\* rounded to is worked out where it is used, in round().  An exponent
\* moves the point and underscores between digits are dropped, as float()
\* does.

Lower(c) ==
  IF \E k \in 27..52 : CharAt(LetterChars, k) = c
  THEN CharAt(LetterChars, (CHOOSE k \in 27..52 : CharAt(LetterChars, k) = c) - 26)
  ELSE c

RECURSIVE LowerIn(_, _, _)
LowerIn(s, lo, hi) ==
  IF lo > hi THEN ""
  ELSE IF lo = hi THEN Lower(CharAt(s, lo))
  ELSE LowerIn(s, lo, (lo + hi) \div 2) \o LowerIn(s, (lo + hi) \div 2 + 1, hi)

LowerStr(s) == LowerIn(s, 1, Len(s))

LStripSpace(s) == SubSeq(s, FirstPos(s, 1, Len(s), FloatSpaceChars, FALSE), Len(s))

RStripSpace(s) == SubSeq(s, 1, LastPos(s, 1, Len(s), FloatSpaceChars, FALSE))

AllDigits(s) == \A i \in 1..Len(s) : IsDigit(CharAt(s, i))

StripLeadingZeros(s) == SubSeq(s, FirstPos(s, 1, Len(s), {"0"}, FALSE), Len(s))

\* position of the first "." of s from i on, or 0
PointAt(s, i) ==
  LET p == FirstPos(s, i, Len(s), {"."}, TRUE) IN IF p > Len(s) THEN 0 ELSE p

\* the first position in lo..hi where a and b differ, or hi + 1
RECURSIVE FirstDiff(_, _, _, _)
FirstDiff(a, b, lo, hi) ==
  IF lo > hi THEN hi + 1
  ELSE IF lo = hi THEN (IF CharAt(a, lo) # CharAt(b, lo) THEN lo ELSE hi + 1)
  ELSE LET m == (lo + hi) \div 2
           l == FirstDiff(a, b, lo, m)
       IN  IF l <= m THEN l ELSE FirstDiff(a, b, m + 1, hi)

\* a >= b for digit strings of the same length
DigitsGeq(a, b) ==
  LET d == FirstDiff(a, b, 1, Len(a))
  IN  d > Len(a) \/ DigitVal(CharAt(a, d)) > DigitVal(CharAt(b, d))

\* 2^1024 - 2^970: the least integer that float() rounds to infinity
DBL_OVERFLOW ==
  "17976931348623158079372897140530341507993413271003782693617377898044496829276475094664901797758720709633028641669288791094655554785194040263065748867150582068190890200070838367627385484581771153176447573027006985557136695962284291481986083493647529271907416844436551070434271155969950809304288017790417449779" \o "2"

Overflows(int) ==
  LET d == StripLeadingZeros(int)
  IN  \/ Len(d) > Len(DBL_OVERFLOW)
      \/ Len(d) = Len(DBL_OVERFLOW) /\ DigitsGeq(d, DBL_OVERFLOW)

\* the number the digits s[1..k] write
RECURSIVE NatOfPrefix(_, _)
NatOfPrefix(s, k) ==
  IF k = 0 THEN 0 ELSE 10 * NatOfPrefix(s, k - 1) + DigitVal(CharAt(s, k))

StrToNat(s) == NatOfPrefix(s, Len(s))

\* every "_" of s stands between two digits
ValidUnderscores(s) ==
  \A i \in 1..Len(s) :
    CharAt(s, i) = "_" =>
      i > 1 /\ i < Len(s) /\ IsDigit(CharAt(s, i - 1)) /\ IsDigit(CharAt(s, i + 1))

\* s[lo..hi] without its underscores
RECURSIVE RemoveUnderscoresIn(_, _, _)
RemoveUnderscoresIn(s, lo, hi) ==
  IF lo > hi THEN ""
  ELSE IF lo = hi THEN (IF CharAt(s, lo) = "_" THEN "" ELSE CharAt(s, lo))
  ELSE RemoveUnderscoresIn(s, lo, (lo + hi) \div 2)
       \o RemoveUnderscoresIn(s, (lo + hi) \div 2 + 1, hi)

\* the most digits of a decimal exponent kept as a number; one of more
\* digits is larger than the number of digits any mantissa has
MAX_EXP_DIGITS == 9

\* the digits int.frac times 10^e, as an integer part and a fraction part
Shifted(int, frac, e) ==
  LET d == int \o frac
      p == Len(int) + e
  IN  IF p >= Len(d) THEN <<d \o Rep("0", p - Len(d)), "">>
      ELSE IF p <= 0 THEN <<"", Rep("0", 0 - p) \o d>>
      ELSE <<SubSeq(d, 1, p), SubSeq(d, p + 1, Len(d))>>

\* <<integer digits, fraction digits>> of the mantissa man
MantissaParts(man) ==
  LET dot == PointAt(man, 1)
  IN  IF dot = 0 THEN <<man, "">>
      ELSE <<SubSeq(man, 1, dot - 1), SubSeq(man, dot + 1, Len(man))>>

\* the exponent of u, whose "e" stands at ep (ep > Len(u): no exponent):
\* [has, neg, ok, sig], sig the digits without leading zeros
ExponentPart(u, ep) ==
  LET ex   == SubSeq(u, ep + 1, Len(u))
      sgn  == ex # "" /\ CharAt(ex, 1) \in {"+", "-"}
      edig == IF sgn THEN SubSeq(ex, 2, Len(ex)) ELSE ex
  IN  [has |-> ep <= Len(u),
       neg |-> ex # "" /\ CharAt(ex, 1) = "-",
       ok  |-> ep > Len(u) \/ (edig # "" /\ AllDigits(edig)),
       sig |-> StripLeadingZeros(edig)]

\* the float of mantissa digits m = <<int, frac>> and exponent x.  A
\* mantissa that is not zero is at least 10^-Len(frac) and less than
\* 10^Len(int): with an exponent of Len(frac) + 309 or more the value is
\* past every double, with one of -(Len(int) + 324) or less it is below
\* half the least double.  Any other exponent moves the point.
FloatOfParts(neg, w, m, x) ==
  LET zero == StripLeadingZeros(m[1] \o m[2]) = ""
      long == Len(x.sig) > MAX_EXP_DIGITS
      e    == IF long THEN 0 ELSE StrToNat(x.sig)
      over == x.has /\ ~x.neg /\ (long \/ e >= Len(m[2]) + 309)
      under == x.has /\ x.neg /\ (long \/ e >= Len(m[1]) + 324)
      sh   == IF ~x.has \/ zero \/ over \/ under THEN m
              ELSE Shifted(m[1], m[2], IF x.neg THEN 0 - e ELSE e)
  IN  IF ~(/\ ValidUnderscores(w)
           /\ AllDigits(m[1]) /\ AllDigits(m[2]) /\ Len(m[1]) + Len(m[2]) >= 1
           /\ x.ok)
        THEN [cls |-> "invalid", neg |-> neg, int |-> "", frac |-> ""]
      ELSE IF zero \/ under
        THEN [cls |-> "finite", neg |-> neg, int |-> "0", frac |-> ""]
      ELSE IF over \/ Overflows(sh[1])
        THEN [cls |-> "inf", neg |-> neg, int |-> "", frac |-> ""]
      ELSE [cls |-> "finite", neg |-> neg, int |-> sh[1], frac |-> sh[2]]

\* the float of the decimal literal w, u being w without its underscores
\* and ep the place of its "e"
FloatOfDecimal(neg, w, u, ep) ==
  FloatOfParts(neg, w, MantissaParts(SubSeq(u, 1, ep - 1)), ExponentPart(u, ep))

\* the float of the unsigned text w
FloatOfUnsigned(neg, w, u) ==
  IF LowerStr(w) = "nan"
    THEN [cls |-> "nan", neg |-> neg, int |-> "", frac |-> ""]
  ELSE IF LowerStr(w) \in {"inf", "infinity"}
    THEN [cls |-> "inf", neg |-> neg, int |-> "", frac |-> ""]
  ELSE FloatOfDecimal(neg, w, u, FirstPos(u, 1, Len(u), {"e", "E"}, TRUE))

\* the float of the stripped text t
FloatOfStripped(t, sgn) ==
  FloatOfUnsigned(t # "" /\ CharAt(t, 1) = "-",
                  IF sgn THEN SubSeq(t, 2, Len(t)) ELSE t,
                  IF sgn THEN RemoveUnderscoresIn(t, 2, Len(t))
                         ELSE RemoveUnderscoresIn(t, 1, Len(t)))

\* [cls: "invalid" | "nan" | "inf" | "finite", neg, int, frac]
FloatParse(n) ==
  LET t == RStripSpace(LStripSpace(n))
  IN  FloatOfStripped(t, t # "" /\ CharAt(t, 1) \in {"+", "-"})

\* ------------------------------------------------- round() and formatting

\* the digit string s plus one
Incr(s) ==
  LET q == LastPos(s, 1, Len(s), {"9"}, FALSE)
  IN  (IF q = 0 THEN "1" ELSE SubSeq(s, 1, q - 1) \o DigitChar(DigitVal(CharAt(s, q)) + 1))
      \o Rep("0", Len(s) - q)

RECURSIVE Pow(_, _)
Pow(b, e) == IF e = 0 THEN 1 ELSE b * Pow(b, e - 1)

RECURSIVE PowMod(_, _, _)
PowMod(b, e, m) == IF e = 0 THEN 1 % m ELSE (b * PowMod(b, e - 1, m)) % m

\* floor(log2(k)) for k >= 1
RECURSIVE Log2Floor(_)
Log2Floor(k) == IF k < 2 THEN 0 ELSE 1 + Log2Floor(k \div 2)

\* the least j >= 1 with f * 2^j >= m, for 0 < f < m
RECURSIVE ShiftsTo(_, _)
ShiftsTo(f, m) == IF 2 * f >= m THEN 1 ELSE 1 + ShiftsTo(2 * f, m)

MANT_BITS == 52

\* The sign of float(d) - d for d = int + fs / 10^Len(fs), fs # 0: the
\* double nearest to d has a 53-bit significand, and what is cut off is the
\* remainder of d * 2^e by 10^Len(fs), with 2^52 <= d * 2^e < 2^53.
FloatErrSign(int, fs) ==
  LET m == Pow(10, Len(fs))
      f == StrToNat(fs)
      i == StrToNat(StripLeadingZeros(int))
      e == IF i >= 1 THEN MANT_BITS - Log2Floor(i) ELSE MANT_BITS + ShiftsTo(f, m)
      r == (f * PowMod(2, e, m)) % m
  IN  IF r = 0 THEN 0 ELSE IF 2 * r < m THEN -1 ELSE 1

\* --- the double of a decimal of any length
\* A decimal x is <<int, frac>>, two digit strings, for the number
\* int.frac.  Twice and half a decimal are made digit by digit, a digit of
\* the result depending on its own and one neighbour only.

\* the digits lo..hi of twice the digit string s (s[1] below 5)
RECURSIVE DoubleIn(_, _, _)
DoubleIn(s, lo, hi) ==
  IF lo > hi THEN ""
  ELSE IF lo = hi
    THEN DigitChar(((2 * DigitVal(CharAt(s, lo))) % 10)
                   + (IF lo < Len(s) /\ DigitVal(CharAt(s, lo + 1)) >= 5 THEN 1 ELSE 0))
  ELSE DoubleIn(s, lo, (lo + hi) \div 2) \o DoubleIn(s, (lo + hi) \div 2 + 1, hi)

\* 2 * x
DecDouble(x) ==
  LET s == "0" \o x[1] \o x[2]
      t == DoubleIn(s, 1, Len(s))
  IN  <<StripLeadingZeros(SubSeq(t, 1, Len(x[1]) + 1)),
        RStripChar(SubSeq(t, Len(x[1]) + 2, Len(t)), "0")>>

\* the digits lo..hi of half the digit string s (s[Len(s)] even)
RECURSIVE HalveIn(_, _, _)
HalveIn(s, lo, hi) ==
  IF lo > hi THEN ""
  ELSE IF lo = hi
    THEN DigitChar((DigitVal(CharAt(s, lo)) \div 2)
                   + (IF lo > 1 /\ (DigitVal(CharAt(s, lo - 1)) % 2) = 1 THEN 5 ELSE 0))
  ELSE HalveIn(s, lo, (lo + hi) \div 2) \o HalveIn(s, (lo + hi) \div 2 + 1, hi)

\* x / 2
DecHalve(x) ==
  LET s == x[1] \o x[2] \o "0"
      t == HalveIn(s, 1, Len(s))
  IN  <<StripLeadingZeros(SubSeq(t, 1, Len(x[1]))),
        RStripChar(SubSeq(t, Len(x[1]) + 1, Len(t)), "0")>>

\* x * 2^k, k any integer.  (The test of h has h worked out before it is
\* scaled further.)
RECURSIVE DecScale(_, _)
RECURSIVE DecScaleOn(_, _)
DecScale(x, k) ==
  IF k = 0 THEN x
  ELSE IF k = 1 THEN DecDouble(x)
  ELSE IF k = -1 THEN DecHalve(x)
  ELSE DecScaleOn(DecScale(x, k \div 2), k - k \div 2)

\* h * 2^k, h a decimal already worked out
DecScaleOn(h, k) == IF Len(h) = 2 THEN DecScale(h, k) ELSE h

\* a >= b for digit strings without leading zeros
NatGeq(a, b) == Len(a) > Len(b) \/ (Len(a) = Len(b) /\ DigitsGeq(a, b))

\* 0.a >= 0.b for digit strings
FracGeq(a, b) ==
  LET k == IF Len(a) > Len(b) THEN Len(a) ELSE Len(b)
  IN  DigitsGeq(a \o Rep("0", k - Len(a)), b \o Rep("0", k - Len(b)))

\* 2^53
TWO_53 == "9007199254740992"

\* 2^-8, after the point
TWO_M8 == "00390625"

\* an e with 2^e <= int.frac, for a value of at least 2^-8; int has no
\* leading zeros.  (3.321928 < log2(10).)
Log2Lower(int) ==
  IF int = "" THEN -8 ELSE ((Len(int) - 1) * 3321928) \div 1000000

\* <<int, frac, k>> with x = int.frac * 2^j and int below 2^53, from
\* x = x0 * 2^(j - k)
RECURSIVE ToSignificand(_, _)
ToSignificand(x, k) ==
  IF NatGeq(x[1], TWO_53) THEN ToSignificand(DecHalve(x), k + 1)
  ELSE <<x[1], x[2], k>>

\* a fraction of more than a half, or of a half after an odd unit t
RoundsUp(t, frac) ==
  /\ frac # ""
  /\ LET nxt == DigitVal(CharAt(frac, 1))
     IN  IF nxt # 5 THEN nxt > 5
         ELSE IF StripLeadingZeros(SubSeq(frac, 2, Len(frac))) # "" THEN TRUE
         ELSE t # "" /\ DigitVal(CharAt(t, Len(t))) % 2 = 1

\* the value of s = <<int, frac, k>> with int.frac rounded to an integer,
\* ties to the even one: round(int.frac) * 2^k
FromSignificand(s) ==
  DecScale(<<IF RoundsUp(s[1], s[2]) THEN Incr(s[1]) ELSE s[1], "">>, s[3])

\* The double nearest to int.frac, ties to the even significand, as the
\* decimal that is its exact value; for 2^-8 <= int.frac, int without
\* leading zeros and below the overflow threshold.  The value is scaled to
\* a significand of 53 bits, rounded to an integer, and scaled back.
NearestDouble(int, frac) ==
  FromSignificand(ToSignificand(DecScale(<<int, frac>>, MANT_BITS - Log2Lower(int)),
                                Log2Lower(int) - MANT_BITS))

\* the digits of int.frac * 10^p rounded to an integer: to the nearest,
\* and at a tie as err says (up if positive, down if negative, to the even
\* one if 0)
RoundDecimal(int, frac, p, err) ==
  LET f    == frac \o Rep("0", IF Len(frac) > p THEN 0 ELSE p + 1 - Len(frac))
      keep == int \o SubSeq(f, 1, p)
      nxt  == DigitVal(CharAt(f, p + 1))
      rest == SubSeq(f, p + 2, Len(f))
      odd  == keep # "" /\ DigitVal(CharAt(keep, Len(keep))) % 2 = 1
      up   == IF nxt # 5 THEN nxt > 5
              ELSE IF StripLeadingZeros(rest) # "" THEN TRUE
              ELSE IF err # 0 THEN err > 0
              ELSE odd
  IN  IF up THEN Incr(keep) ELSE keep

\* the first p + 1 digits of the fraction frac
TieDigits(frac, p) == SubSeq(frac \o Rep("0", p + 1), 1, p + 1)

\* the parsed float v with the digits d = <<int, frac>>
WithDigits(v, d, exact) ==
  [cls |-> v.cls, neg |-> v.neg, int |-> d[1], frac |-> d[2], exact |-> exact]

\* f = float(n): the parsed decimal with the digits round() is to work on.
\*  - A decimal of at most 15 digits with an integer part below 10^9 is
\*    nearer to its double than to any tie of up to two places that it is
\*    not itself: it is kept as written (exact FALSE), and rounds as
\*    written but for a tie, which goes the way the double lies from it.
\*  - A value below 2^-8 has a double of at most 2^-8 < 0.005, which rounds
\*    to zero at up to two places: it is kept as 0.
\*  - Any other value is kept as the exact digits of its double.
FloatOfParsed(v, int) ==
  IF v.cls # "finite" \/ (Len(int) <= 9 /\ Len(int) + Len(v.frac) <= 15)
    THEN WithDigits(v, <<v.int, v.frac>>, FALSE)
  ELSE IF int = "" /\ ~FracGeq(v.frac, TWO_M8)
    THEN WithDigits(v, <<"", "">>, TRUE)
  ELSE WithDigits(v, NearestDouble(int, v.frac), TRUE)

Float(n) == FloatOfParsed(FloatParse(n), StripLeadingZeros(FloatParse(n).int))

\* round(f, p) of v = Float(n), for p <= 2, as the digits of
\* round(f, p) * 10^p: Python rounds the double's exact value to the
\* nearest, ties to even.
RoundedDigits(v, p) ==
  RoundDecimal(v.int, v.frac, p,
               IF v.exact THEN 0 ELSE FloatErrSign(v.int, TieDigits(v.frac, p)))

\* str(int(round(f)))
IntStr(v) ==
  LET d == StripLeadingZeros(RoundedDigits(v, 0))
  IN  IF d = "" THEN "0" ELSE (IF v.neg THEN "-" ELSE "") \o d

\* f"{round(f, p):.{p}f}" for p >= 1
FixedStr(v, p) ==
  LET d == RoundedDigits(v, p)
      z == Rep("0", IF Len(d) > p THEN 0 ELSE p - Len(d)) \o d
      i == StripLeadingZeros(SubSeq(z, 1, Len(z) - p))
  IN  (IF v.neg THEN "-" ELSE "") \o (IF i = "" THEN "0" ELSE i) \o "."
      \o SubSeq(z, Len(z) - p + 1, Len(z))

\* --------------------------------------------------------------- _variants

\* int(round(f)) raises OverflowError on an infinity, ValueError on a NaN
VariantsRaises(n) == FloatParse(n).cls \in {"inf", "nan"}

\* n.rstrip("0").rstrip(".")
Trimmed(n) == RStripChar(RStripChar(n, "0"), ".")

\* the set _variants returns, when it returns
\* out, for f = v
VariantsOf(n, v) ==
  IF v.cls # "finite" THEN {n}
  ELSE {n, IntStr(v), FixedStr(v, 1), FixedStr(v, 2)}
       \cup (IF PointAt(n, 1) # 0 /\ Trimmed(n) # "" THEN {Trimmed(n)} ELSE {})

_variants(n) == VariantsOf(n, Float(n))

\* ------------------------------------------------------------------ ALLOW

\* a wrong allow-list, for contrast: "0" added to the minute markers
ALLOW_WithZero ==
  {"120", "90", "75", "60", "45", "30", "25", "20", "15", "10", "5", "3", "2", "1", "0",
   "2019", "2020", "2021", "2022", "2023", "2024", "2025", "2026"}

\* a wrong allow-list, for contrast: the years without the minute markers
ALLOW_YearsOnly ==
  {"2019", "2020", "2021", "2022", "2023", "2024", "2025", "2026"}

ALLOW ==
  {"120", "90", "75", "60", "45", "30", "25", "20", "15", "10", "5", "3", "2", "1",
   "2019", "2020", "2021", "2022", "2023", "2024", "2025", "2026"}

\* ---------------------------------------------------- _index_fact_numbers

\* str(f.get("value", "") or "")
FactValueText(f) ==
  OrEmptyStr(IF "value" \in DOMAIN f THEN f["value"] ELSE PyStr(""))

\* the halves of the scorelines of a text, in the order the loops visit them
RECURSIVE HalvesFrom(_, _)
HalvesFrom(pairs, k) ==
  IF k > Len(pairs) THEN <<>>
  ELSE <<pairs[k][1], pairs[k][2]>> \o HalvesFrom(pairs, k + 1)

\* a wrong reading of scorelines, for contrast: only the first side of each
FirstSidesOnly(text) ==
  [k \in 1..Len(scorelines_from_text(PyStr(text))) |->
     scorelines_from_text(PyStr(text))[k][1]]

ScoreParts(text) == HalvesFrom(scorelines_from_text(PyStr(text)), 1)

\* bag.update(_variants(norm)) for every token of toks
RECURSIVE BagUpdate(_, _, _)
BagUpdate(bag, toks, k) ==
  IF k > Len(toks) THEN bag
  ELSE BagUpdate(bag \cup _variants(_normalize_number_token(toks[k])), toks, k + 1)

TokensRaise(toks) ==
  \E k \in DOMAIN toks : VariantsRaises(_normalize_number_token(toks[k]))

\* a wrong loop body, for contrast: each fact starts the bag afresh
IndexOnlyThisFact(bag, f) ==
  LET v == FactValueText(f)
  IN  BagUpdate(BagUpdate({}, ScoreParts(v), 1), numbers_from_text(PyStr(v)), 1)

\* the body of the loop over facts: the bag after fact f
IndexOneFact(bag, f) ==
  LET v == FactValueText(f)
  IN  BagUpdate(BagUpdate(bag, ScoreParts(v), 1), numbers_from_text(PyStr(v)), 1)

RECURSIVE IndexLoop(_, _, _)
IndexLoop(bag, l, k) ==
  IF k > Len(l) THEN bag ELSE IndexLoop(IndexOneFact(bag, l[k]), l, k + 1)

IndexRaises(facts) ==
  \E k \in DOMAIN OrEmptyList(facts) :
    LET v == FactValueText(OrEmptyList(facts)[k])
    IN  TokensRaise(ScoreParts(v)) \/ TokensRaise(numbers_from_text(PyStr(v)))

\* the set _index_fact_numbers returns, when it returns
_index_fact_numbers(facts) == IndexLoop({}, OrEmptyList(facts), 1)

\* -------------------------------------------------- _unique_preserve_order

RECURSIVE UniqueLoop(_, _, _, _)
UniqueLoop(seen, out, items, k) ==
  IF k > Len(items) THEN out
  ELSE IF items[k] \in seen THEN UniqueLoop(seen, out, items, k + 1)
  ELSE UniqueLoop(seen \cup {items[k]}, Append(out, items[k]), items, k + 1)

\* a wrong deduplication, for contrast: every item kept
KeepEveryItem(items) == items

_unique_preserve_order(items) == UniqueLoop({}, <<>>, items, 1)

\* ------------------------------------------------ assert_numbers_in_facts

Grounded(norm, index) == _variants(norm) \cap index # {}

\* 1) scorelines in body: the test of one half
ScoreHalfMissing(part, index) ==
  LET norm == _normalize_number_token(part)
  IN  norm \notin ALLOW /\ ~Grounded(norm, index)

ScoreHalfRaises(part) ==
  LET norm == _normalize_number_token(part)
  IN  norm \notin ALLOW /\ VariantsRaises(norm)

\* 2) standalone tokens in body: the test of one token
NumAllowed(tok) ==
  _normalize_number_token(tok) \in ALLOW \/ RStripChar(tok, "%") \in ALLOW

NumTokenMissing(tok, index) ==
  ~NumAllowed(tok) /\ ~Grounded(_normalize_number_token(tok), index)

NumTokenRaises(tok) ==
  ~NumAllowed(tok) /\ VariantsRaises(_normalize_number_token(tok))

\* what the first loop appends to missing
ScoreMissing(text, index) ==
  SelectSeq(ScoreParts(text), LAMBDA part : ScoreHalfMissing(part, index))

ScoreLoopRaises(text) ==
  \E k \in DOMAIN ScoreParts(text) : ScoreHalfRaises(ScoreParts(text)[k])

\* what the second loop appends to missing
NumMissing(text, index) ==
  SelectSeq(numbers_from_text(PyStr(text)), LAMBDA tok : NumTokenMissing(tok, index))

NumLoopRaises(text) ==
  \E k \in DOMAIN numbers_from_text(PyStr(text)) :
    NumTokenRaises(numbers_from_text(PyStr(text))[k])

\* the call as a whole: whether it raises, and the list it returns if not
Raises(b, fs) ==
  IndexRaises(fs) \/ ScoreLoopRaises(OrEmptyStr(b)) \/ NumLoopRaises(OrEmptyStr(b))

assert_numbers_in_facts(b, fs) ==
  LET index == _index_fact_numbers(fs)
      text  == OrEmptyStr(b)
  IN  _unique_preserve_order(ScoreMissing(text, index) \o NumMissing(text, index))

\* ------------------------------------------------------------ the call
\* One call of assert_numbers_in_facts(body, facts), step by step: pc is
\* the place the call has reached, fact_index and missing are its locals,
\* result is what it returns.  pc = "raised" is the call ended by an
\* exception.

VARIABLES body, facts, pc, fact_index, missing, result

\* One call of _variants(n) on its own: variants_n is its argument,
\* variants_out its local out, variants_pc the place it has reached.

VARIABLES variants_n, variants_out, variants_pc

variants_vars == <<variants_n, variants_out, variants_pc>>

VariantsIdle == variants_n = "" /\ variants_out = {} /\ variants_pc = "idle"

\* Concurrent calls of get_pool (app/deps.py): _pool is the module's
\* global, 0 standing for None and k >= 1 for the k-th pool object made;
\* dsn is what settings.dsn() returns; task_pc[t] is the place task t has
\* reached, task_ret[t] what its call returned, created the number of calls
\* of asyncpg.create_pool, task_exc[t] the class of the exception that is
\* on its way out of the call or that the call has raised ("" for none).
\* close_pc is the place a call of close_pool has reached, closed the pools
\* whose close() has been called, close_exc the class of the exception
\* close_pool has raised.

VARIABLES _pool, dsn, task_pc, task_ret, task_exc, created, close_pc, closed, close_exc

close_vars == <<close_pc, closed, close_exc>>

pool_vars == <<_pool, dsn, task_pc, task_ret, task_exc, created, close_vars>>

NoPool == 0

PoolIdle ==
  /\ _pool = NoPool /\ dsn = "" /\ task_pc = <<>> /\ task_ret = <<>> /\ task_exc = <<>>
  /\ created = 0
  /\ close_pc = "idle" /\ closed = {} /\ close_exc = ""

\* One call of generate (app/llm.py) under its retry decorator: attempts
\* is the outcome of every attempt of the model call so far, gen_pc the
\* place the call has reached, gen_result what it returned, gen_exc what
\* it raised (the exception of an attempt, or the CancelledError thrown
\* into tenacity's sleep).

VARIABLES attempts, gen_pc, gen_result, gen_exc

gen_vars == <<attempts, gen_pc, gen_result, gen_exc>>

GenIdle == attempts = <<>> /\ gen_pc = "idle" /\ gen_result = PyNone /\ gen_exc = ""

\* what a call of assert_numbers_in_facts leaves alone
other_calls == <<variants_vars, pool_vars, gen_vars>>

OtherCallsIdle == VariantsIdle /\ PoolIdle /\ GenIdle

vars == <<body, facts, pc, fact_index, missing, result, other_calls>>

\* fact_index = _index_fact_numbers(facts)
IndexFacts ==
  /\ pc = "start"
  /\ IF IndexRaises(facts)
     THEN pc' = "raised" /\ UNCHANGED fact_index
     ELSE pc' = "scorelines" /\ fact_index' = _index_fact_numbers(facts)
  /\ UNCHANGED <<other_calls, body, facts, missing, result>>

\* 1) scorelines in body
ScorelinePass ==
  /\ pc = "scorelines"
  /\ IF ScoreLoopRaises(OrEmptyStr(body))
     THEN pc' = "raised" /\ UNCHANGED missing
     ELSE pc' = "numbers" /\ missing' = missing \o ScoreMissing(OrEmptyStr(body), fact_index)
  /\ UNCHANGED <<other_calls, body, facts, fact_index, result>>

\* 2) standalone tokens in body
NumberPass ==
  /\ pc = "numbers"
  /\ IF NumLoopRaises(OrEmptyStr(body))
     THEN pc' = "raised" /\ UNCHANGED missing
     ELSE pc' = "return" /\ missing' = missing \o NumMissing(OrEmptyStr(body), fact_index)
  /\ UNCHANGED <<other_calls, body, facts, fact_index, result>>

\* return _unique_preserve_order(missing)
Return ==
  /\ pc = "return"
  /\ pc' = "done"
  /\ result' = _unique_preserve_order(missing)
  /\ UNCHANGED <<other_calls, body, facts, fact_index, missing>>

Next == IndexFacts \/ ScorelinePass \/ NumberPass \/ Return

\* the state at the call, given its arguments
Called(b, fs) ==
  /\ OtherCallsIdle
  /\ body = b
  /\ facts = fs
  /\ pc = "start"
  /\ fact_index = {}
  /\ missing = <<>>
  /\ result = <<>>

\* ------------------------------------------------------------- the inputs

\* every text made of at most k pieces of the vocabulary v
RECURSIVE PieceTexts(_, _)
PieceTexts(v, k) ==
  IF k = 0 THEN {""}
  ELSE {""} \cup {p \o t : p \in v, t \in PieceTexts(v, k - 1)}

\* every list of at most k elements of the set pool
RECURSIVE ListsUpTo(_, _)
ListsUpTo(pool, k) ==
  IF k = 0 THEN {<<>>}
  ELSE {<<>>} \cup {<<f>> \o l : f \in pool, l \in ListsUpTo(pool, k - 1)}

Fact(v) == [label |-> PyStr("xG"), value |-> v, source |-> PyStr("db")]

\* a number of 310 digits, written with thousands separators
HugeNumber == "1" \o Rep(",000", 103)

MaxBodyPieces == 2

MaxFacts == 1

BodyVocab == {"47", "90", "1.8", "-", "%", "a", ",470"}

\* the bodies the specification's examples use
ExampleBodies ==
  {"played the full 90 minutes", "47, 47, and 99", "in 2024",
   "They scored 47 goals", "The stat was 1.8", "The stat was 3-1", "2.4",
   "7-4 and 3 ~ 1", "90% of 120", "Matchday3", "Matchday34", "34th place"}

Bodies ==
  {PyNone} \cup {PyStr(t) : t \in PieceTexts(BodyVocab, MaxBodyPieces) \cup ExampleBodies}

FactPool ==
  {Fact(PyStr("1.8")), Fact(PyStr("47")), Fact(PyStr("3-1")), Fact(PyStr("1.84")),
   Fact(PyNone), [label |-> PyStr("venue"), source |-> PyStr("db")]}

FactLists == {PyNone} \cup {PyList(l) : l \in ListsUpTo(FactPool, MaxFacts)}

\* calls whose body or facts hold a number too large for a double
HugeCalls ==
  {<<PyStr(HugeNumber), PyList(<<>>)>>,
   <<PyStr("90"), PyList(<<Fact(PyStr(HugeNumber))>>)>>,
   <<PyStr("The stat was " \o HugeNumber), PyList(<<Fact(PyStr(HugeNumber))>>)>>}

Init ==
  \/ \E b \in Bodies, fs \in FactLists : Called(b, fs)
  \/ \E c \in HugeCalls : Called(c[1], c[2])

Spec == Init /\ [][Next]_vars

\* ================================================================ properties

Returned == pc = "done"

Ended == pc \in {"done", "raised"}

SeqSet(q) == {q[k] : k \in DOMAIN q}

BodyText == OrEmptyStr(body)

BodyHalves == SeqSet(ScoreParts(BodyText))

BodyTokens == SeqSet(numbers_from_text(body))

\* every scoreline half and every number written in a fact value
FactNumbers ==
  UNION {SeqSet(ScoreParts(FactValueText(f)))
           \cup SeqSet(numbers_from_text(PyStr(FactValueText(f))))
         : f \in SeqSet(OrEmptyList(facts))}

\* the fact index, said as a set: every variant of every fact number
FactVariants == UNION {_variants(_normalize_number_token(t)) : t \in FactNumbers}

HasFactVariant(tok) == _variants(_normalize_number_token(tok)) \cap FactVariants # {}

HalfPasses(part) == _normalize_number_token(part) \in ALLOW \/ HasFactVariant(part)

TokenPasses(tok) ==
  \/ _normalize_number_token(tok) \in ALLOW
  \/ RStripChar(tok, "%") \in ALLOW
  \/ HasFactVariant(tok)

EveryTokenPasses ==
  (\A part \in BodyHalves : HalfPasses(part)) /\ (\A tok \in BodyTokens : TokenPasses(tok))

\* C1: the call returns the empty list if and only if every scoreline half
\* and every scalar token of body is allow-listed or has a variant in the
\* fact index, and every returned element is a raw body token that fails
\* both tests.
C1_Contract ==
  Ended =>
    /\ (Returned /\ result = <<>>) <=> EveryTokenPasses
    /\ Returned =>
         \A r \in SeqSet(result) :
           \/ r \in BodyHalves /\ ~HalfPasses(r)
           \/ r \in BodyTokens /\ ~TokenPasses(r)

\* the body is "The stat was " + v for the value v of one of the facts
RoundTripCall ==
  \E k \in DOMAIN OrEmptyList(facts) :
    LET f == OrEmptyList(facts)[k]
    IN  /\ "value" \in DOMAIN f
        /\ f["value"].py = "str"
        /\ body = PyStr("The stat was " \o f["value"].s)

\* C2: for every string v and every fact list holding a fact of value v,
\* the call with body "The stat was " + v returns the empty list.
C2_RoundTrip == (Ended /\ RoundTripCall) => (Returned /\ result = <<>>)

\* a normalized number small enough to be counted in thousandths
Small(n) ==
  LET v == FloatParse(n)
  IN  v.cls = "finite" /\ Len(v.int) <= 6 /\ Len(v.frac) <= 3

\* the value of a small number, in thousandths
Milli(n) ==
  LET v == FloatParse(n)
      m == StrToNat(v.int) * 1000 + StrToNat(v.frac \o Rep("0", 3 - Len(v.frac)))
  IN  IF v.neg THEN 0 - m ELSE m

\* the multiples of q nearest to x (two of them when x lies halfway)
Nearest(x, q) ==
  LET lo == (x \div q) * q
  IN  {m \in {lo, lo + q} : (IF x >= m THEN x - m ELSE m - x) * 2 <= q}

\* the same value, or one is the other rounded to 0, 1 or 2 decimal places
RelatedNumbers(t, f) ==
  /\ Small(t) /\ Small(f)
  /\ \/ Milli(t) = Milli(f)
     \/ \E q \in {1000, 100, 10} :
          Milli(t) \in Nearest(Milli(f), q) \/ Milli(f) \in Nearest(Milli(t), q)

\* C4: a scalar body token that is not allow-listed is left unflagged only
\* if some fact number has the same value or one of the two is the other
\* rounded to 0, 1 or 2 decimal places.
C4_OnlyRelated ==
  Returned =>
    \A tok \in BodyTokens :
      (/\ ~NumAllowed(tok)
       /\ Small(_normalize_number_token(tok))
       /\ tok \notin SeqSet(result))
      => \E f \in FactNumbers :
           RelatedNumbers(_normalize_number_token(tok), _normalize_number_token(f))

MinuteMarkers ==
  {"120", "90", "75", "60", "45", "30", "25", "20", "15", "10", "5", "3", "2", "1"}

\* C5: whatever the facts, a body token whose normalized form is a minute
\* marker, with or without a trailing percent sign, is not in the result;
\* "played the full 90 minutes" with empty facts returns the empty list.
C5_MinuteMarkers ==
  Returned =>
    /\ \A tok \in BodyTokens \cup BodyHalves :
         _normalize_number_token(tok) \in MinuteMarkers => tok \notin SeqSet(result)
    /\ (body = PyStr("played the full 90 minutes") /\ OrEmptyList(facts) = <<>>)
         => result = <<>>

\* a minute marker with a percent sign, nothing in the facts to ground it
C5_Witness ==
  /\ Returned
  /\ BodyTokens = {"90%"}
  /\ FactVariants = {}
  /\ result = <<>>

YearTokens == {"2019", "2020", "2021", "2022", "2023", "2024", "2025", "2026"}

\* C6: a body whose only digits are a year from 2019 to 2026 yields the
\* empty list, whatever the facts.
C6_Years ==
  (Returned /\ \E y \in YearTokens : body = PyStr("in " \o y)) => result = <<>>

\* the first position of x in q
FirstIndex(q, x) == CHOOSE i \in DOMAIN q : q[i] = x /\ \A j \in 1..(i - 1) : q[j] # x

\* C8: the result holds no string twice, holds exactly the flagged tokens,
\* in the order of their first occurrence among the flagged tokens; body
\* "47, 47, and 99" with facts that ground neither returns <<"47", "99">>.
C8_OrderDedup ==
  Returned =>
    /\ \A i, j \in DOMAIN result : result[i] = result[j] => i = j
    /\ SeqSet(result) = SeqSet(missing)
    /\ \A i, j \in DOMAIN result :
         i < j => FirstIndex(missing, result[i]) < FirstIndex(missing, result[j])
    /\ (body = PyStr("47, 47, and 99") /\ ~HasFactVariant("47") /\ ~HasFactVariant("99"))
         => result = <<"47", "99">>

\* a token flagged twice is returned once
C8_Witness ==
  /\ Returned
  /\ body = PyStr("47, 47, and 99")
  /\ missing = <<"47", "47", "99">>
  /\ result = <<"47", "99">>

\* the facts that have a value with something in it
ValuedFacts == SelectSeq(OrEmptyList(facts), LAMBDA f : FactValueText(f) # "")

\* C9: the call never raises; a None or empty body is empty text and
\* returns the empty list, None facts are an empty fact list, and a fact
\* with a missing or None value adds nothing to the index.
C9_NeverRaises ==
  /\ pc # "raised"
  /\ (Returned /\ body \in {PyNone, PyStr("")}) => result = <<>>
  /\ pc \in {"scorelines", "numbers", "return", "done"}
       => fact_index = _index_fact_numbers(PyList(ValuedFacts))

\* ------------------------------------------------------ tolerant rounding
\* Calls with one fact whose value is a decimal number, and a body that
\* writes one number: the fact's number in another rendering, or a number
\* the fact does not ground.

MaxFracDigits == 1

RECURSIVE DigitStrings(_)
DigitStrings(k) ==
  IF k = 0 THEN {""} ELSE {d \o c : d \in DigitStrings(k - 1), c \in DigitSet}

Signs == {"", "-"}

IntParts == {"0", "1", "6", "47"}

FracParts == UNION {DigitStrings(k) : k \in 1..MaxFracDigits}

\* the integer nearest to int.frac, as Python's round() picks it: of two
\* equally near integers the even one
NearestInt(sg, int, frac) ==
  LET f    == StrToNat(frac)
      m    == Pow(10, Len(frac))
      odd  == DigitVal(CharAt(int, Len(int))) % 2 = 1
      up   == 2 * f > m \/ (2 * f = m /\ odd)
      n    == IF up THEN Incr(int) ELSE int
  IN  IF n = "0" THEN "0" ELSE sg \o n

\* the ways the claim lets a body write the decimal sg int.frac
Renderings(sg, int, frac) ==
  LET v == sg \o int \o "." \o frac
  IN  {v, v \o "0", v \o "%", v \o "0%", NearestInt(sg, int, frac),
       NearestInt(sg, int, frac) \o "%"}

UnrelatedTokens == {"99", "99.5", "-7", "0.05"}

BodyPrefixes == {"", "xG of "}

InitRounding ==
  \E sg \in Signs, int \in IntParts, frac \in FracParts :
    \E r \in Renderings(sg, int, frac) \cup UnrelatedTokens, pre \in BodyPrefixes :
      Called(PyStr(pre \o r), PyList(<<Fact(PyStr(sg \o int \o "." \o frac))>>))

SpecRounding == InitRounding /\ [][Next]_vars

\* the call's body is one of the renderings of the call's one fact value
RenderedCall ==
  \E sg \in Signs, int \in IntParts, frac \in FracParts :
    /\ facts = PyList(<<Fact(PyStr(sg \o int \o "." \o frac))>>)
    /\ \E r \in Renderings(sg, int, frac), pre \in BodyPrefixes : body = PyStr(pre \o r)

\* C3: with a decimal fact value, a body that writes the same number with a
\* trailing zero, rounded to the nearest integer, or with a percent sign
\* has nothing flagged; and a body token and the same token followed by a
\* percent sign are both flagged or both not.
C3_TolerantRounding ==
  Returned =>
    /\ RenderedCall => result = <<>>
    /\ \A t \in BodyTokens :
         (RStripChar(t, "%") = t /\ body = PyStr(SubSeq(BodyText, 1, Len(BodyText) - Len(t)) \o t))
         => LET pct == assert_numbers_in_facts(PyStr(BodyText \o "%"), facts)
            IN  /\ ~Raises(PyStr(BodyText \o "%"), facts)
                /\ (t \in SeqSet(result)) <=> (t \o "%" \in SeqSet(pct))
                /\ Len(result) = Len(pct)

\* fact 6.5, body "6.50%": the trailing zero and the percent sign together
C3_Witness ==
  /\ Returned
  /\ facts = PyList(<<Fact(PyStr("6.5"))>>)
  /\ body = PyStr("xG of 6.50%")
  /\ result = <<>>

\* a token without a percent sign that is flagged
C3_WitnessFlagged ==
  /\ Returned
  /\ facts = PyList(<<Fact(PyStr("6.5"))>>)
  /\ body = PyStr("99.5")
  /\ result = <<"99.5">>

\* ------------------------------------------------------ scoreline indexing
\* Calls with one fact whose value is a hyphenated scoreline, and a body
\* that writes a scoreline: the same one with a hyphen, the same one with a
\* spaced en dash, or one that shares no side with the fact's.

\* the digits that are not in ALLOW
PlainDigits == {"0", "4", "6", "7", "8", "9"}

\* the sides of the fact's scoreline: the plain digits and the two
\* allow-listed ones of the specification's example
FactSides == PlainDigits \cup {"3", "1"}

Hyphenated(a, b) == a \o "-" \o b

SpacedEnDash(a, b) == a \o " " \o EnDash \o " " \o b

ScorePrefixes == {"", "It ended "}

InitScore ==
  \E a \in FactSides, b \in FactSides, pre \in ScorePrefixes :
    \E t \in {Hyphenated(a, b), SpacedEnDash(a, b)}
              \cup {Hyphenated(c, d) : c \in PlainDigits \ {a, b}, d \in PlainDigits \ {a, b}} :
      Called(PyStr(pre \o t), PyList(<<Fact(PyStr(Hyphenated(a, b)))>>))

SpecScore == InitScore /\ [][Next]_vars

\* C7: a fact whose value is the scoreline a-b leaves nothing flagged in a
\* body that writes a-b with a hyphen or with a spaced en dash, and for a
\* scoreline c-d of plain digits other than a and b both c and d are in
\* the result.
C7_Scorelines ==
  Returned =>
    \A a \in FactSides, b \in FactSides :
      facts = PyList(<<Fact(PyStr(Hyphenated(a, b)))>>) =>
        \A pre \in ScorePrefixes :
          /\ body \in {PyStr(pre \o Hyphenated(a, b)), PyStr(pre \o SpacedEnDash(a, b))}
               => result = <<>>
          /\ \A c \in PlainDigits \ {a, b}, d \in PlainDigits \ {a, b} :
               body = PyStr(pre \o Hyphenated(c, d))
               => c \in SeqSet(result) /\ d \in SeqSet(result)

\* fact "7-4" and the body writing it with an en dash: grounded as a scoreline
C7_Witness ==
  /\ Returned
  /\ facts = PyList(<<Fact(PyStr("7-4"))>>)
  /\ body = PyStr("It ended 7 ~ 4")
  /\ ScoreParts(BodyText) = <<"7", "4">>
  /\ result = <<>>

\* the example of the specification: fact "3-1", body "7-4"
C7_WitnessUnrelated ==
  /\ Returned
  /\ facts = PyList(<<Fact(PyStr("3-1"))>>)
  /\ body = PyStr("7-4")
  /\ result = <<"7", "4", "-4">>

\* ------------------------------------------------- set semantics of facts
\* Calls with several facts that differ in label, value and source.

MaxFactList == 2

LabelledFact(lab, v, src) == [label |-> PyStr(lab), value |-> v, source |-> PyStr(src)]

LabelledPool ==
  {LabelledFact("xG", PyStr("1.8"), "db"), LabelledFact("goals", PyStr("47"), "db"),
   LabelledFact("shots", PyStr("47"), "api"), LabelledFact("score", PyStr("3-1"), "api"),
   LabelledFact("note", PyNone, "db")}

SetBodies ==
  {"1.80 and 47", "99 then 7-4 and 47%", "7 ~ 4 and 1.8", "2.4 of 99", "4-3"}

InitFacts ==
  \E b \in SetBodies, l \in ListsUpTo(LabelledPool, MaxFactList) :
    Called(PyStr(b), PyList(l))

SpecFacts == InitFacts /\ [][Next]_vars

\* the orders a list of n items can be put in
Orders(n) == {o \in [1..n -> 1..n] : \A i, j \in 1..n : o[i] = o[j] => i = j}

Reordered(l, o) == [k \in DOMAIN l |-> l[o[k]]]

\* l with its k-th item once more, right after it
Doubled(l, k) == SubSeq(l, 1, k) \o SubSeq(l, k, Len(l))

\* the facts with nothing but their values
ValuesOnly(l) ==
  [k \in DOMAIN l |-> IF "value" \in DOMAIN l[k] THEN [value |-> l[k]["value"]] ELSE [note |-> PyNone]]

\* the facts under other labels and sources
Relabelled(l) ==
  [k \in DOMAIN l |->
     IF "value" \in DOMAIN l[k] THEN LabelledFact("other", l[k]["value"], "elsewhere")
     ELSE [label |-> PyStr("other")]]

\* C10: for a fixed body the result is the same for the fact list in any
\* order, with any fact doubled, and with other labels and sources or none:
\* it depends on the value fields only.
C10_SetSemantics ==
  Returned =>
    LET l == OrEmptyList(facts)
    IN  /\ \A o \in Orders(Len(l)) :
             assert_numbers_in_facts(body, PyList(Reordered(l, o))) = result
        /\ \A k \in DOMAIN l :
             assert_numbers_in_facts(body, PyList(Doubled(l, k))) = result
        /\ assert_numbers_in_facts(body, PyList(ValuesOnly(l))) = result
        /\ assert_numbers_in_facts(body, PyList(Relabelled(l))) = result

\* two facts of different values, each grounding one number of the body,
\* and a third number that neither grounds
C10_Witness ==
  /\ Returned
  /\ body = PyStr("99 then 7-4 and 47%")
  /\ facts = PyList(<<LabelledFact("score", PyStr("3-1"), "api"),
                      LabelledFact("goals", PyStr("47"), "db")>>)
  /\ result = <<"7", "4", "99", "-4">>

\* ------------------------------------------------- allow-listed halves
\* Calls with the single fact "3-1" and a body that writes a scoreline of
\* two digits.

InitHalves ==
  \E a \in DigitSet, b \in DigitSet, pre \in ScorePrefixes :
    Called(PyStr(pre \o Hyphenated(a, b)), PyList(<<Fact(PyStr("3-1"))>>))

SpecHalves == InitHalves /\ [][Next]_vars

\* the body writes the scoreline 2-0
WritesTwoNil == \E pre \in ScorePrefixes : body = PyStr(pre \o "2-0")

\* C11: as stated: "0" and "2" are both in ALLOW, and with the single
\* fact "3-1" neither "2" nor "0" is in the result for a body that holds
\* "2-0".
C11_BothExempt ==
  /\ "0" \in ALLOW /\ "2" \in ALLOW
  /\ (Returned /\ WritesTwoNil) => ("2" \notin SeqSet(result) /\ "0" \notin SeqSet(result))

\* C11: as the code has it: of the digits only 1, 2, 3 and 5 are in
\* ALLOW; with the single fact "3-1" a half of a body scoreline of two
\* digits is in the result exactly if it is none of these, so for a body
\* that holds "2-0" the half "2" is not in the result and the half "0" is.
C11_OnlyTwoExempt ==
  /\ ALLOW \cap DigitSet = {"1", "2", "3", "5"}
  /\ Returned =>
       /\ \A h \in BodyHalves : h \in SeqSet(result) <=> h \notin {"1", "2", "3", "5"}
       /\ WritesTwoNil => ("2" \notin SeqSet(result) /\ "0" \in SeqSet(result))

\* body "2-0" against the fact "3-1": the half "0" and the number "-0" flagged
C11_Witness ==
  /\ Returned
  /\ body = PyStr("It ended 2-0")
  /\ facts = PyList(<<Fact(PyStr("3-1"))>>)
  /\ result = <<"0", "-0">>

\* --------------------------------------------- the index of a scoreline
\* Calls with one fact whose value is "a-b", a and b digit strings, and a
\* body that writes the scoreline or the number "-b".

MaxSideDigits == 3

SideDigits == {"0", "1", "3"}

RECURSIVE SideStrings(_)
SideStrings(k) ==
  IF k = 0 THEN {""} ELSE {d \o c : d \in SideStrings(k - 1), c \in SideDigits}

Sides == UNION {SideStrings(k) : k \in 1..MaxSideDigits}

InitIndex ==
  \E a \in Sides, b \in Sides :
    \E t \in {Hyphenated(a, b), "-" \o b} :
      Called(PyStr(t), PyList(<<Fact(PyStr(Hyphenated(a, b)))>>))

SpecIndex == InitIndex /\ [][Next]_vars

\* the place of the hyphen in a text that has one
PointAtHyphen(v) == FirstPos(v, 1, Len(v), {"-"}, TRUE)

\* the value of the call's one fact, and its two sides
IndexedValue == FactValueText(OrEmptyList(facts)[1])

HomeSide == SubSeq(IndexedValue, 1, PointAtHyphen(IndexedValue) - 1)

AwaySide == SubSeq(IndexedValue, PointAtHyphen(IndexedValue) + 1, Len(IndexedValue))

Indexed == pc \in {"scorelines", "numbers", "return", "done"}

\* C12: the index built from a fact value "a-b" is exactly variants(a)
\* with variants(b) and holds no negative-number entry.
C12_ScorelineOnly ==
  Indexed =>
    /\ fact_index = _variants(HomeSide) \cup _variants(AwaySide)
    /\ \A e \in fact_index : CharAt(e, 1) # "-"

\* the index built from the fact "3-1" holds "-1", the hyphen read as a
\* sign by the plain-number pass, and so the body "-1" is not flagged
C12_Witness ==
  /\ Returned
  /\ IndexedValue = "3-1"
  /\ body = PyStr("-1")
  /\ "-1" \in fact_index
  /\ result = <<>>

\* ------------------------------------------------ alphanumeric identifiers

\* the matches of _NUM_RE in s from i on, as <<first, last>> positions
RECURSIVE NumSpans(_, _)
NumSpans(s, i) ==
  LET b == FirstNumMatch(s, i, Len(s))
  IN  IF b > Len(s) THEN <<>>
      ELSE <<(<<b, NumMatchEnd(s, b) - 1>>)>> \o NumSpans(s, NumMatchEnd(s, b))

IsAlnum(c) == IsLetter(c) \/ IsDigit(c)

\* the positions lo..hi of s lie in one run of letters and digits, and
\* the maximal such run around them holds a letter
InsideIdentifier(s, lo, hi) ==
  /\ \A i \in lo..hi : IsAlnum(CharAt(s, i))
  /\ \E k \in 1..Len(s) :
       /\ IsLetter(CharAt(s, k))
       /\ \A i \in Min(k, lo)..(IF k > hi THEN k ELSE hi) : IsAlnum(CharAt(s, i))

\* C13: no token that numbers_from_text returns lies inside a maximal run
\* of letters and digits that holds a letter; "Matchday3", "Matchday34"
\* and "34th" yield no token.
C13_NoIdentifierDigits ==
  pc \in {"return", "done"} =>
    /\ \A k \in DOMAIN NumSpans(BodyText, 1) :
         ~InsideIdentifier(BodyText, NumSpans(BodyText, 1)[k][1], NumSpans(BodyText, 1)[k][2])
    /\ body \in {PyStr("Matchday3"), PyStr("Matchday34"), PyStr("34th place")}
         => (numbers_from_text(body) = <<>> /\ missing = <<>>)

\* the call on "Matchday34": the digit 4 is extracted, and flagged
C13_Witness ==
  /\ Returned
  /\ body = PyStr("Matchday34")
  /\ numbers_from_text(body) = <<"4">>
  /\ OrEmptyList(facts) = <<>>
  /\ result = <<"4">>

\* ------------------------------------------------- _variants on its own
\* One call of _variants(n) for a string n, step by step.

\* no call of assert_numbers_in_facts under way
GuardIdle ==
  /\ body = PyNone /\ facts = PyNone /\ pc = "idle"
  /\ fact_index = {} /\ missing = <<>> /\ result = <<>>

guard_vars == <<body, facts, pc, fact_index, missing, result>>

\* out = {n}; f = float(n), and return out if that raises
VariantsFloat ==
  /\ variants_pc = "called"
  /\ variants_out' = {variants_n}
  /\ variants_pc' = IF FloatParse(variants_n).cls = "invalid" THEN "returned" ELSE "round"
  /\ UNCHANGED <<variants_n, guard_vars, pool_vars, gen_vars>>

\* the integer and the rounded forms; int(round(f)) raises on inf and nan
VariantsRound ==
  /\ variants_pc = "round"
  /\ IF FloatParse(variants_n).cls \in {"inf", "nan"}
     THEN variants_pc' = "raised" /\ UNCHANGED variants_out
     ELSE /\ variants_pc' = "trim"
          /\ variants_out' = variants_out
               \cup {IntStr(Float(variants_n)), FixedStr(Float(variants_n), 1),
                     FixedStr(Float(variants_n), 2)}
  /\ UNCHANGED <<variants_n, guard_vars, pool_vars, gen_vars>>

\* the raw form without trailing zeros and point; return out
VariantsTrim ==
  /\ variants_pc = "trim"
  /\ variants_out' = variants_out
       \cup (IF PointAt(variants_n, 1) # 0 /\ Trimmed(variants_n) # ""
             THEN {Trimmed(variants_n)} ELSE {})
  /\ variants_pc' = "returned"
  /\ UNCHANGED <<variants_n, guard_vars, pool_vars, gen_vars>>

NextVariants == VariantsFloat \/ VariantsRound \/ VariantsTrim

MaxVariantPieces == 3

VariantVocab == {"1", "5", "0", ".", "-", "e"}

VariantWords ==
  {"inf", "-inf", "Infinity", "nan", "NaN", "abc", "1_0", "1e999", "2.675", " 12 ", "1.80",
   VT \o "5", FS \o "5", "1.4999999999999999999999", "12345678901234567890",
   "4294967296.25", "0.0039", "1e-5"}

InitVariants ==
  /\ GuardIdle /\ PoolIdle /\ GenIdle
  /\ variants_n \in PieceTexts(VariantVocab, MaxVariantPieces) \cup VariantWords
  /\ variants_out = {}
  /\ variants_pc = "called"

SpecVariants == InitVariants /\ [][NextVariants]_vars

\* C14: the call of _variants never raises; the set it returns holds n,
\* and is {n} alone whenever n is not a finite number.
C14_Total ==
  /\ variants_pc # "raised"
  /\ variants_pc = "returned" =>
       /\ variants_n \in variants_out
       /\ FloatParse(variants_n).cls # "finite" => variants_out = {variants_n}

\* the call on "inf": float() accepts it, int(round(f)) raises
C14_Witness ==
  /\ variants_n = "inf"
  /\ variants_pc = "raised"
  /\ variants_out = {"inf"}

\* ------------------------------------------------- thousands separators
\* Calls with one fact and a body that write the same number, one of them
\* with thousands separators and the other without.

CommaHeads == {"1", "2", "12"}

CommaGroups == {a \o b \o c : a \in {"0", "4"}, b \in {"0", "4"}, c \in {"0", "4"}}

CommaPrefixes == {"", "It was "}

WithSeparator(h, g) == h \o "," \o g

WithoutSeparator(h, g) == h \o g

InitCommas ==
  \E h \in CommaHeads, g \in CommaGroups, pre \in CommaPrefixes :
    \/ Called(PyStr(pre \o WithoutSeparator(h, g)), PyList(<<Fact(PyStr(WithSeparator(h, g)))>>))
    \/ Called(PyStr(pre \o WithSeparator(h, g)), PyList(<<Fact(PyStr(WithoutSeparator(h, g)))>>))

SpecCommas == InitCommas /\ [][Next]_vars

\* C15: a body that writes the fact's number with or without thousands
\* separators, the fact writing it the other way, has nothing flagged.
C15_CommaTolerance == Returned => result = <<>>

\* the fact "1,400" and the body "1400": the body is read as "140" and "0"
C15_Witness ==
  /\ Returned
  /\ body = PyStr("1400")
  /\ facts = PyList(<<Fact(PyStr("1,400"))>>)
  /\ numbers_from_text(body) = <<"140", "0">>
  /\ result = <<"140", "0">>

\* the fact "1400" and the body "1,400": the fact is read as "140" and "0"
C15_WitnessReverse ==
  /\ Returned
  /\ body = PyStr("1,400")
  /\ facts = PyList(<<Fact(PyStr("1400"))>>)
  /\ result = <<"1,400">>

\* ------------------------------------------------ the order of the result
\* Calls whose body writes two items, each a plain number or a scoreline.

OrderItems == {"8", "99", "47%", "7-4", "6 ~ 0"}

OrderSeparators == {" and ", ", "}

OrderFacts == {<<>>, <<Fact(PyStr("99"))>>}

InitOrder ==
  \E x \in OrderItems, y \in OrderItems, sep \in OrderSeparators, fs \in OrderFacts :
    Called(PyStr(x \o sep \o y), PyList(fs))

SpecOrder == InitOrder /\ [][Next]_vars

\* the first place of t where x stands, or Len(t) + 1
FirstOccurrence(t, x) ==
  LET at == {i \in 1..Len(t) : i + Len(x) - 1 <= Len(t) /\ SubSeq(t, i, i + Len(x) - 1) = x}
  IN  IF at = {} THEN Len(t) + 1 ELSE CHOOSE i \in at : \A j \in at : i <= j

\* C16: the result is in the order of appearance in body: a token whose
\* first occurrence in the text is to the left of another's precedes it in
\* the result, scoreline halves and plain numbers alike.
C16_AppearanceOrder ==
  Returned =>
    \A i, j \in DOMAIN result :
      FirstOccurrence(BodyText, result[i]) < FirstOccurrence(BodyText, result[j]) => i < j

\* "8" stands before the scoreline in the text and after its halves in
\* the result
C16_Witness ==
  /\ Returned
  /\ body = PyStr("8 and 7-4")
  /\ facts = PyList(<<>>)
  /\ missing = <<"7", "4", "8", "7", "-4">>
  /\ result = <<"7", "4", "8", "-4">>

\* ------------------------------------------------- grounded scorelines
\* Calls whose body writes one scoreline a-b and whose facts supply a and
\* b as a scoreline, as an en-dash scoreline or as two scalar values.

GroundedSides == {"4", "7", "0", "3", "1", "10"}

TightEnDash(a, b) == a \o EnDash \o b

\* the ways the body writes the scoreline
ScoreWritings(a, b) == {Hyphenated(a, b), TightEnDash(a, b), SpacedEnDash(a, b)}

\* the ways the facts supply the two numbers
ScoreSupplies(a, b) ==
  {<<Fact(PyStr(Hyphenated(a, b)))>>,
   <<Fact(PyStr(TightEnDash(a, b)))>>,
   <<Fact(PyStr(a)), Fact(PyStr(b))>>}

InitGrounded ==
  \E a \in GroundedSides, b \in GroundedSides, pre \in ScorePrefixes :
    \E t \in ScoreWritings(a, b), fs \in ScoreSupplies(a, b) :
      Called(PyStr(pre \o t), PyList(fs))

SpecGrounded == InitGrounded /\ [][Next]_vars

\* C17: a body scoreline whose halves each have a variant in the fact
\* index, or are allow-listed, puts nothing in the result, however the body
\* writes it and however the facts supply the two numbers.
C17_GroundedScoreline ==
  (Returned /\ \A h \in BodyHalves : HalfPasses(h)) => result = <<>>

\* the body "4-7" against the scalar facts "4" and "7": both halves are
\* grounded and the plain-number pass flags "-7"
C17_Witness ==
  /\ Returned
  /\ body = PyStr("4-7")
  /\ facts = PyList(<<Fact(PyStr("4")), Fact(PyStr("7"))>>)
  /\ BodyHalves = {"4", "7"}
  /\ \A h \in BodyHalves : HalfPasses(h)
  /\ result = <<"-7">>

\* ----------------------------------------------------------- exceptions

\* the classes of the exceptions met and their base classes: openai's,
\* and the built-in ones
ExceptionBase ==
  [APITimeoutError     |-> "APIConnectionError",
   APIConnectionError  |-> "APIError",
   RateLimitError      |-> "APIStatusError",
   InternalServerError |-> "APIStatusError",
   BadRequestError     |-> "APIStatusError",
   AuthenticationError |-> "APIStatusError",
   APIStatusError      |-> "APIError",
   APIError            |-> "OpenAIError",
   OpenAIError         |-> "Exception",
   ValueError          |-> "Exception",
   RuntimeError        |-> "Exception",
   Exception           |-> "BaseException",
   CancelledError      |-> "BaseException"]

\* isinstance(e, c) for an exception of class e
RECURSIVE IsInstance(_, _)
IsInstance(e, c) ==
  \/ e = c
  \/ e \in DOMAIN ExceptionBase /\ IsInstance(ExceptionBase[e], c)

\* what an await may raise in place of returning: an error of the awaited
\* call, or the CancelledError of the task being cancelled there
AwaitRaises == {"RuntimeError", "CancelledError"}

\* ------------------------------------------------------------- get_pool
\* Tasks of one event loop that each call get_pool once, and one call of
\* close_pool.  A task runs without interruption from one await to the
\* next, and every await returns or raises.

MaxTasks == 3

Tasks == 1..MaxTasks

\* what settings.dsn() may return
DsnValues == {"", "postgresql://db/wsl"}

\* the call up to its first await: return the pool there is, or None
\* without a DSN, or call asyncpg.create_pool
GetPoolEnter(t) ==
  /\ task_pc[t] = "start"
  /\ IF _pool # NoPool
     THEN /\ task_pc' = [task_pc EXCEPT ![t] = "done"]
          /\ task_ret' = [task_ret EXCEPT ![t] = _pool]
          /\ UNCHANGED created
     ELSE IF dsn = ""
     THEN /\ task_pc' = [task_pc EXCEPT ![t] = "done"]
          /\ task_ret' = [task_ret EXCEPT ![t] = NoPool]
          /\ UNCHANGED created
     ELSE /\ task_pc' = [task_pc EXCEPT ![t] = "create_pool"]
          /\ created' = created + 1
          /\ UNCHANGED task_ret
  /\ UNCHANGED <<_pool, dsn, task_exc, close_vars, guard_vars, variants_vars, gen_vars>>

\* create_pool returns a new pool, written t for the task whose call made
\* it, which is assigned to _pool; then _pool.acquire() is awaited
GetPoolAssign(t) ==
  /\ task_pc[t] = "create_pool"
  /\ _pool' = t
  /\ task_pc' = [task_pc EXCEPT ![t] = "acquire"]
  /\ UNCHANGED <<dsn, task_ret, task_exc, created, close_vars, guard_vars, variants_vars,
                 gen_vars>>

\* the await at which task t is suspended raises e, and nothing of
\* get_pool stands in its way: get_pool raises e
GetPoolRaises(t, e) ==
  /\ task_pc' = [task_pc EXCEPT ![t] = "raised"]
  /\ task_exc' = [task_exc EXCEPT ![t] = e]
  /\ UNCHANGED <<_pool, dsn, task_ret, created, close_vars, guard_vars, variants_vars,
                 gen_vars>>

\* create_pool raises (no server, bad credentials, cancellation): so does
\* get_pool, and _pool is as it was
GetPoolCreateFails(t) ==
  \E e \in AwaitRaises : task_pc[t] = "create_pool" /\ GetPoolRaises(t, e)

\* _pool.acquire() raises: so does get_pool, and _pool stays assigned
GetPoolAcquireFails(t) ==
  \E e \in AwaitRaises : task_pc[t] = "acquire" /\ GetPoolRaises(t, e)

\* the connection is there; conn.execute is awaited
GetPoolAcquired(t) ==
  /\ task_pc[t] = "acquire"
  /\ task_pc' = [task_pc EXCEPT ![t] = "execute"]
  /\ UNCHANGED <<_pool, dsn, task_ret, task_exc, created, close_vars, guard_vars,
                 variants_vars, gen_vars>>

\* the statement has run, or raised an Exception, which is ignored; the
\* release of the connection is awaited
GetPoolExecuted(t) ==
  /\ task_pc[t] = "execute"
  /\ task_pc' = [task_pc EXCEPT ![t] = "release"]
  /\ UNCHANGED <<_pool, dsn, task_ret, task_exc, created, close_vars, guard_vars,
                 variants_vars, gen_vars>>

\* conn.execute raises e.  `except Exception` ignores an Exception; any
\* other exception leaves the `async with`, whose exit awaits the release
\* of the connection with e on its way out
GetPoolExecuteRaises(t) ==
  \E e \in AwaitRaises :
    /\ task_pc[t] = "execute"
    /\ task_pc' = [task_pc EXCEPT ![t] = "release"]
    /\ task_exc' = [task_exc EXCEPT ![t] = IF IsInstance(e, "Exception") THEN "" ELSE e]
    /\ UNCHANGED <<_pool, dsn, task_ret, created, close_vars, guard_vars, variants_vars,
                   gen_vars>>

\* the connection is released and no exception is on its way out: the call
\* returns what _pool holds now
GetPoolReturn(t) ==
  /\ task_pc[t] = "release"
  /\ task_exc[t] = ""
  /\ task_pc' = [task_pc EXCEPT ![t] = "done"]
  /\ task_ret' = [task_ret EXCEPT ![t] = _pool]
  /\ UNCHANGED <<_pool, dsn, task_exc, created, close_vars, guard_vars, variants_vars,
                 gen_vars>>

\* the connection is released and the exception of conn.execute is on its
\* way out: get_pool raises it
GetPoolReraises(t) ==
  /\ task_pc[t] = "release"
  /\ task_exc[t] # ""
  /\ GetPoolRaises(t, task_exc[t])

\* the release of the connection raises: so does get_pool, whatever was on
\* its way out before
GetPoolReleaseFails(t) ==
  \E e \in AwaitRaises : task_pc[t] = "release" /\ GetPoolRaises(t, e)

\* close_pool up to its await: nothing to do without a pool, or else
\* close() is called on the pool _pool holds
ClosePoolEnter ==
  /\ close_pc = "start"
  /\ IF _pool = NoPool
     THEN close_pc' = "done" /\ UNCHANGED closed
     ELSE close_pc' = "close" /\ closed' = closed \cup {_pool}
  /\ UNCHANGED <<_pool, dsn, task_pc, task_ret, task_exc, created, close_exc, guard_vars,
                 variants_vars, gen_vars>>

\* the pool is closed: _pool = None, whatever _pool holds by now
ClosePoolReset ==
  /\ close_pc = "close"
  /\ close_pc' = "done"
  /\ _pool' = NoPool
  /\ UNCHANGED <<dsn, task_pc, task_ret, task_exc, created, closed, close_exc, guard_vars,
                 variants_vars, gen_vars>>

\* _pool.close() raises: so does close_pool, and _pool stays assigned
ClosePoolCloseFails ==
  \E e \in AwaitRaises :
    /\ close_pc = "close"
    /\ close_pc' = "raised"
    /\ close_exc' = e
    /\ UNCHANGED <<_pool, dsn, task_pc, task_ret, task_exc, created, closed, guard_vars,
                   variants_vars, gen_vars>>

GetPoolStep(t) ==
  \/ GetPoolEnter(t) \/ GetPoolAssign(t) \/ GetPoolCreateFails(t)
  \/ GetPoolAcquired(t) \/ GetPoolAcquireFails(t)
  \/ GetPoolExecuted(t) \/ GetPoolExecuteRaises(t)
  \/ GetPoolReturn(t) \/ GetPoolReraises(t) \/ GetPoolReleaseFails(t)

NextPool ==
  \/ \E t \in Tasks : GetPoolStep(t)
  \/ ClosePoolEnter \/ ClosePoolReset \/ ClosePoolCloseFails

InitPool ==
  /\ GuardIdle /\ VariantsIdle /\ GenIdle
  /\ _pool = NoPool
  /\ dsn \in DsnValues
  /\ task_pc = [t \in Tasks |-> "start"]
  /\ task_ret = [t \in Tasks |-> NoPool]
  /\ task_exc = [t \in Tasks |-> ""]
  /\ created = 0
  /\ close_pc = "start"
  /\ closed = {}
  /\ close_exc = ""

SpecPool == InitPool /\ [][NextPool]_vars

\* no close_pool so far, and no await of a call of get_pool has raised
Undisturbed == close_pc = "start" /\ \A t \in Tasks : task_exc[t] = ""

\* C18: with a DSN and no close_pool, create_pool is called at most once
\* and all the calls of get_pool that have returned have returned the same
\* pool.
C18_Singleton ==
  (dsn # "" /\ Undisturbed) =>
    /\ created <= 1
    /\ \A t \in Tasks, u \in Tasks :
         (task_pc[t] = "done" /\ task_pc[u] = "done") => task_ret[t] = task_ret[u]

\* two calls entered before either had its pool: create_pool called
\* twice, and the two calls have returned different pools
C18_Witness ==
  /\ dsn # ""
  /\ Undisturbed
  /\ created = 2
  /\ task_pc[1] = "done" /\ task_pc[2] = "done"
  /\ task_ret[1] = 1 /\ task_ret[2] = 2

\* ------------------------------------------------------------- generate
\* One call of generate: tenacity calls the function body, and after a
\* failed attempt decides between raising, and sleeping and calling again.

\* the classes given to retry_if_exception_type
RETRY_TYPES == {"APIConnectionError", "APITimeoutError", "RateLimitError", "APIError"}

retry_if_exception_type(e) == \E c \in RETRY_TYPES : IsInstance(e, c)

STOP_AFTER_ATTEMPT == 3

\* a wrong stop condition, for contrast: one attempt more
StopAfterFour(n) == n >= STOP_AFTER_ATTEMPT + 1

\* stop_after_attempt(3), asked after the n-th attempt
stop_after_attempt(n) == n >= STOP_AFTER_ATTEMPT

\* the exceptions the awaited model call may raise: the API's errors, one
\* that is not the API's, and the CancelledError of a cancelled task
RaisedTypes ==
  {"APIConnectionError", "APITimeoutError", "RateLimitError", "InternalServerError",
   "BadRequestError", "AuthenticationError", "ValueError", "CancelledError"}

\* the responses of the model call, each the contents of its choices
Responses ==
  {<<>>, <<PyNone>>, <<PyStr("")>>, <<PyStr(" Arsenal won 3-1. ")>>,
   <<PyStr("Draw."), PyStr("Second choice")>>, <<PyStr(FS \o "Draw." \o VT \o "\n")>>}

\* str.strip()
StrStrip(s) ==
  SubSeq(s, FirstPos(s, 1, Len(s), SpaceChars, FALSE), LastPos(s, 1, Len(s), SpaceChars, FALSE))

\* what generate returns for a response
Content(choices) ==
  IF Len(choices) = 0 THEN ""
  ELSE StrStrip(OrEmptyStr(choices[1]))

Succeeded(r) == [ok |-> TRUE, choices |-> r, exc |-> ""]

Failed(e) == [ok |-> FALSE, choices |-> <<>>, exc |-> e]

\* an attempt whose model call answers: generate returns
AttemptReturns ==
  \E r \in Responses :
    /\ gen_pc = "call"
    /\ attempts' = Append(attempts, Succeeded(r))
    /\ gen_result' = PyStr(Content(r))
    /\ gen_pc' = "returned"
    /\ UNCHANGED <<gen_exc, guard_vars, variants_vars, pool_vars>>

\* an attempt whose model call raises: the exception is raised to the
\* caller if it is not of a retried class or the attempts are used up, and
\* else tenacity sleeps
AttemptRaises ==
  \E e \in RaisedTypes :
    /\ gen_pc = "call"
    /\ attempts' = Append(attempts, Failed(e))
    /\ IF ~retry_if_exception_type(e) \/ stop_after_attempt(Len(attempts) + 1)
       THEN gen_pc' = "raised" /\ gen_exc' = e
       ELSE gen_pc' = "sleep" /\ UNCHANGED gen_exc
    /\ UNCHANGED <<gen_result, guard_vars, variants_vars, pool_vars>>

\* the wait of wait_exponential is over: the next attempt
RetrySleep ==
  /\ gen_pc = "sleep"
  /\ gen_pc' = "call"
  /\ UNCHANGED <<attempts, gen_result, gen_exc, guard_vars, variants_vars, pool_vars>>

\* the caller's task is cancelled during the wait: the sleep raises
\* CancelledError, and so does generate, with no further attempt
RetrySleepCancelled ==
  /\ gen_pc = "sleep"
  /\ gen_pc' = "raised"
  /\ gen_exc' = "CancelledError"
  /\ UNCHANGED <<attempts, gen_result, guard_vars, variants_vars, pool_vars>>

NextGenerate == AttemptReturns \/ AttemptRaises \/ RetrySleep \/ RetrySleepCancelled

InitGenerate ==
  /\ GuardIdle /\ VariantsIdle /\ PoolIdle
  /\ attempts = <<>>
  /\ gen_pc = "call"
  /\ gen_result = PyNone
  /\ gen_exc = ""

SpecGenerate == InitGenerate /\ [][NextGenerate]_vars

\* a connection error, a timeout, a rate limit or a 5xx
Transient(e) ==
  \/ IsInstance(e, "APIConnectionError")
  \/ IsInstance(e, "RateLimitError")
  \/ IsInstance(e, "InternalServerError")

\* C19: an attempt that fails with an error that is not transient is the
\* last attempt, and its exception is raised to the caller: no retry.
C19_OnlyTransient ==
  \A k \in DOMAIN attempts :
    (~attempts[k].ok /\ ~Transient(attempts[k].exc)) =>
      /\ k = Len(attempts)
      /\ gen_pc = "raised"
      /\ gen_exc = attempts[k].exc

\* a bad request at the first attempt, and tenacity sleeping before the
\* second
C19_Witness ==
  /\ attempts = <<Failed("BadRequestError")>>
  /\ gen_pc = "sleep"

\* an exception that is not the API's is raised after one attempt
C19_WitnessNonApi ==
  /\ attempts = <<Failed("ValueError")>>
  /\ gen_pc = "raised"
  /\ gen_exc = "ValueError"

\* C20: there are at most 3 attempts; a successful attempt is the last
\* one, and generate returns its content; generate returns only after a
\* successful attempt; when the third attempt fails too, nothing more is
\* tried and generate raises the exception of that attempt.
C20_ThreeAttempts ==
  /\ Len(attempts) <= 3
  /\ \A k \in DOMAIN attempts :
       attempts[k].ok =>
         /\ k = Len(attempts)
         /\ gen_pc = "returned"
         /\ gen_result = PyStr(Content(attempts[k].choices))
  /\ gen_pc = "returned" => (attempts # <<>> /\ attempts[Len(attempts)].ok)
  /\ (Len(attempts) = 3 /\ ~attempts[3].ok) =>
       /\ gen_pc = "raised"
       /\ gen_exc = attempts[3].exc
  /\ gen_pc = "raised" => (attempts # <<>> /\ ~attempts[Len(attempts)].ok)

\* three failed attempts, and the third one's exception raised
C20_Witness ==
  /\ attempts = <<Failed("RateLimitError"), Failed("APITimeoutError"),
                  Failed("InternalServerError")>>
  /\ gen_pc = "raised"
  /\ gen_exc = "InternalServerError"

\* two failed attempts and a third that answers
C20_WitnessReturned ==
  /\ attempts = <<Failed("RateLimitError"), Failed("APIConnectionError"),
                  Succeeded(<<PyStr(" Arsenal won 3-1. ")>>)>>
  /\ gen_pc = "returned"
  /\ gen_result = PyStr("Arsenal won 3-1.")
====
